---- MODULE Spec2Model ----
(***************************************************************************)
(* Event log store, publish/consume lifecycle and handler dispatch of      *)
(* protean (src/protean/infra/eventing.py, src/protean/utils/mixins.py,    *)
(* src/protean/adapters/repository/sqlalchemy.py).                         *)
(***************************************************************************)
EXTENDS Integers, Sequences, FiniteSets, TLC

\* ------------------------------------------------------------- bounds
MaxRecords == 3
MaxTime == 3
MaxWrites == 2
MaxMessages == 4
MaxDepth == 2
MaxCommands == 2
MaxStored == 2
MaxEvents == 3
MaxFields == 2
MaxLimit == 2
MaxCreated == 2
MaxAddressed == 2
MaxRows == 2

Times == 1..MaxTime
None == 0

\* ------------------------------------------------------------- state
VARIABLES
    store,        \* the EventLog table: stored records, in insertion order
    clock,        \* datetime.utcnow()
    last,         \* the most recent call on the store and its outcome
    pc,           \* each publisher's place in its publish cycle
    cur,          \* the record (position in the store) a publisher picked
    uow,          \* each context's Unit-of-Work: active or not, pending writes
    db,           \* the writes of handlers that are persisted
    publishedBy,  \* per record, the publishers that dispatched and marked it
    discarded,    \* per context, the writes its last rollback dropped
    log,          \* the message store: the persisted messages of all streams
    loaded,       \* the Messages built from the message store by a read
    scopes,       \* per context, the `with UnitOfWork()` blocks that are open
    sent,         \* the Messages handed to the message store, in order
    built,        \* the most recent message construction and its outcome
    stream,       \* the stored events of one aggregate, in position order
    agg,          \* the aggregate object that is being rebuilt
    rnext,        \* the place in the stream of the next event to apply
    applied,      \* the projection calls made so far: method and position
    lastApply,    \* the most recent _apply call and its outcome
    projections,  \* the aggregate class's _projections
    visit,        \* per event type, the order in which this process's loop
                  \* over the set of projections visits its members
    first,        \* the aggregate an earlier replay of the stream rebuilt
    cmp,          \* the most recent comparison of two objects
    heap,         \* the _projections collection objects that exist
    projOf,       \* per defined aggregate class, its _projections object
    defined,      \* the most recent class definition and its outcome
    called,       \* the most recent _apply on an object of a defined class
    metas,        \* per event class, the options of its meta_
    handlersDone, \* the event handler classes that are registered
    result,       \* the most recent query by type and what it returned
    addressed,    \* the messages built so far: kind, root, identifier, stream
    table,        \* the rows of a table that are committed
    session,      \* the Unit-of-Work of the DAO's context and its session
    dao           \* the most recent DAO operation and its outcome

vars ==
    <<store, clock, last, pc, cur, uow, db, publishedBy, discarded,
      log, loaded, scopes, sent, built,
      stream, agg, rnext, applied, lastApply, projections, visit, first,
      cmp, heap, projOf, defined, called, metas, handlersDone, result,
      addressed, table, session, dao>>

replayVars == <<stream, agg, rnext, applied, lastApply, projections, visit, first>>
typeVars == <<cmp, heap, projOf, defined, called, metas, handlersDone>>
daoVars == <<addressed, table, session, dao>>
queryVars == <<result, daoVars>>
farVars == <<replayVars, typeVars, queryVars>>
msgVars == <<log, loaded, sent, built, farVars>>
storeVars == <<store, clock>>

apiVars == <<last>>
pubVars == <<pc, cur, uow, db, publishedBy, discarded, scopes>>

Publishers == {"p1", "p2"}
Writes == 1..MaxWrites

\* ------------------------------------------------- eventing.py: EventLog
EventLogStatus == {"NEW", "PUBLISHED", "CONSUMED"}

\* A message dict handed to from_message: the keys from_message reads, and a
\* "status" key it may carry as well ("none": the key is absent).
Messages(ids) ==
    [message_id : ids, created_at : Times, status : EventLogStatus \cup {"none"}]

from_message_keeps_status(message) ==
    [message_id |-> message.message_id,
     created_at |-> message.created_at,
     status     |-> IF message.status = "none" THEN "NEW" ELSE message.status,
     updated_at |-> clock]

\* EventLog.from_message: status is not among the copied keys, so the field's
\* default (NEW) applies; updated_at defaults to utcnow.
from_message(message) ==
    [message_id |-> message.message_id,
     created_at |-> message.created_at,
     status     |-> "NEW",
     updated_at |-> clock]

touch_creation_too(rec) == [rec EXCEPT !.updated_at = clock, !.created_at = clock]

touch(rec) == [rec EXCEPT !.updated_at = clock]

Rank(status) ==
    CASE status = "NEW" -> 0
      [] status = "PUBLISHED" -> 1
      [] status = "CONSUMED" -> 2

mark_published_advances(rec) ==
    touch([rec EXCEPT !.status =
              IF rec.status = "NEW" THEN "PUBLISHED" ELSE "CONSUMED"])

mark_published(rec) == touch([rec EXCEPT !.status = "PUBLISHED"])

mark_consumed_keeps_status(rec) == touch(rec)

mark_consumed(rec) == touch([rec EXCEPT !.status = "CONSUMED"])

\* ------------------------------------- eventing.py: EventLogRepository
Indices(s) == 1..Len(s)

NewIndices(s) == {i \in Indices(s) : s[i].status = "NEW"}

get_next_to_publish_any_new(s) ==
    IF NewIndices(s) = {} THEN {None} ELSE NewIndices(s)

get_next_to_publish_newest(s) ==
    IF NewIndices(s) = {} THEN {None}
    ELSE {i \in NewIndices(s) :
            \A j \in NewIndices(s) : s[j].created_at <= s[i].created_at}

\* filter(status=NEW).order_by("created_at").all().first: the rows that may
\* come first (position in the store, None when no row is NEW). The query
\* names no second sort key, so among rows of equal created_at the backend
\* may return any.
get_next_to_publish(s) ==
    IF NewIndices(s) = {} THEN {None}
    ELSE {i \in NewIndices(s) :
            \A j \in NewIndices(s) : s[i].created_at <= s[j].created_at}

\* ------------------------------------------- sqlalchemy.py: SADAO._create
HasId(s, id) == \E i \in Indices(s) : s[i].message_id = id

create_in_place(s, rec) == [raised |-> "none", store |-> <<rec>>]

create_unchecked(s, rec) == [raised |-> "none", store |-> Append(s, rec)]

\* conn.add(model_obj) then conn.commit(): message_id is the primary key
\* column, so the commit of a second row with the same key fails and the
\* table is left as it was.
create(s, rec) ==
    IF HasId(s, rec.message_id)
    THEN [raised |-> "IntegrityError", store |-> s]
    ELSE [raised |-> "none", store |-> Append(s, rec)]

\* ------------------------------------------------------- calls (history)
\* op: the operation; arg: the message_id (append) or the record's position;
\* before: the record's status when the call was made; status: the "status"
\* key of the message (append) or the record's status after the call;
\* raised: the exception that reached the caller; again: the call before
\* this one was the same operation on the same record.
NoCall ==
    [op |-> "none", arg |-> None, before |-> "none", status |-> "none",
     raised |-> "none", again |-> FALSE]

Call(op, arg, before, status, raised) ==
    [op |-> op, arg |-> arg, before |-> before, status |-> status,
     raised |-> raised, again |-> (last.op = op /\ last.arg = arg)]

\* ------------------------------------------------ Unit of Work (scope)
NoUow == [active |-> FALSE, pending |-> {}]

\* UnitOfWork.__enter__: a scope of the context, nothing pending.
uow_start(u) == [active |-> TRUE, pending |-> {}]

\* UnitOfWork.__exit__ after the body returned: the pending writes are
\* flushed as one unit.
uow_commit(u, d) == [uow |-> NoUow, db |-> d \cup u.pending]

\* UnitOfWork.__exit__ after the body raised: the pending writes are dropped.
uow_rollback(u, d) == [uow |-> NoUow, db |-> d]

\* ------------------------------------------------- mixins.py: handle
wrapper_enter_no_uow(u) == u

\* wrapper: "with UnitOfWork():" around fn(instance, target_obj).
wrapper_enter(u) == uow_start(u)

wrapper_exit_discards(u, d) == [uow |-> NoUow, db |-> d]

\* wrapper: fn returned, the with block is left normally.
wrapper_exit(u, d) == IF u.active THEN uow_commit(u, d) ELSE [uow |-> u, db |-> d]

wrapper_exit_raised_drops_every_write(u, d) == [uow |-> NoUow, db |-> {}]

\* wrapper: fn raised; the with block is left by the exception, which the
\* wrapper does not catch.
wrapper_exit_raised(u, d) ==
    IF u.active THEN uow_rollback(u, d) ELSE [uow |-> u, db |-> d]

\* ---------------------------- sqlalchemy.py: SADAO._get_session, _create
\* With a Unit-of-Work active the write joins its session; with none, the
\* DAO commits and closes a session of its own before it returns.
dao_create(u, d, item) ==
    IF u.active
    THEN [uow |-> [u EXCEPT !.pending = @ \cup {item}], db |-> d]
    ELSE [uow |-> u, db |-> d \cup {item}]

\* wrapper: `with UnitOfWork():` is entered by every call of a decorated
\* handler, whatever the context holds already, and left when fn is done.
\* The number counts the with blocks of one context that are open.
with_enter(n) == n + 1

with_exit(n) == n - 1

InitPub ==
    /\ pc = [p \in Publishers |-> "idle"]
    /\ cur = [p \in Publishers |-> None]
    /\ uow = [p \in Publishers |-> NoUow]
    /\ db = {}
    /\ discarded = [p \in Publishers |-> {}]
    /\ scopes = [p \in Publishers |-> 0]

\* ------------------------------------------------------ Python values
\* A value or a dict key, by its type and its JSON text.
PyStr(s) == [t |-> "str", s |-> s]

PyInt(s) == [t |-> "int", s |-> s]

PyNone == [t |-> "none", s |-> "null"]

\* A dict is the set of its <<key, value>> items.
Get(d, name) ==
    IF \E item \in d : item[1] = PyStr(name)
    THEN (CHOOSE item \in d : item[1] = PyStr(name))[2]
    ELSE PyNone

\* json.dumps of a dict: a JSON object, whose keys are strings; a key that
\* is not a string is written as its text.
json_dumps(d) == [json |-> {<<item[1].s, item[2]>> : item \in d}]

\* json.loads of a JSON object: a dict whose keys are strings.
json_loads(text) == {<<PyStr(item[1]), item[2]>> : item \in text.json}

\* ------------------------------------------- mixins.py: MessageMetadata
MessageType == {"EVENT", "COMMAND"}

DomainName == "app"

MessageMetadata(kwargs) ==
    [kind           |-> Get(kwargs, "kind"),
     owner          |-> Get(kwargs, "owner"),
     schema_version |-> Get(kwargs, "schema_version")]

metadata_to_dict(metadata) ==
    {<<PyStr("kind"), metadata.kind>>,
     <<PyStr("owner"), metadata.owner>>,
     <<PyStr("schema_version"), metadata.schema_version>>}

NewMetadata(kind) ==
    MessageMetadata({<<PyStr("kind"), PyStr(kind)>>,
                     <<PyStr("owner"), PyStr(DomainName)>>})

\* ------------------------------ event_sourced_aggregate.py: projections
MethodsOfUser ==
    {[name |-> "registered", _event_cls |-> "Registered"],
     [name |-> "welcomed", _event_cls |-> "Registered"],
     [name |-> "renamed", _event_cls |-> "Renamed"]}

ModuleName == "tests"

fully_qualified_name(cls) == ModuleName \o "." \o cls

event_sourced_aggregate_factory_one_each(methods) ==
    [type \in {fully_qualified_name(method._event_cls) : method \in methods} |->
        {CHOOSE name \in {method.name : method \in
                {m \in methods : fully_qualified_name(m._event_cls) = type}} : TRUE}]

\* event_sourced_aggregate_factory: every method marked by @apply is added
\* to the set of projections of its event's type; _projections is a
\* defaultdict(set), so only the types that have a method are keys.
event_sourced_aggregate_factory(methods) ==
    [type \in {fully_qualified_name(method._event_cls) : method \in methods} |->
        {method.name : method \in {m \in methods : fully_qualified_name(m._event_cls) = type}}]

\* An aggregate object that no event has been applied to.
Blank == [id |-> PyNone, name |-> PyNone, visits |-> 0]

\* _events_cls_map[type](**kwargs): the event object.
event_object(type, kwargs) ==
    [type |-> type, id |-> Get(kwargs, "id"), name |-> Get(kwargs, "name")]

\* Assignment to the identifier field of an aggregate object: the field
\* keeps the value it has once it has one.
set_identifier(aggregate, value) ==
    IF aggregate.id = PyNone THEN [aggregate EXCEPT !.id = value] ELSE aggregate

\* The methods of the aggregate class that @apply marks.
call(fn, aggregate, event) ==
    CASE fn = "registered" ->
            [set_identifier(aggregate, event.id) EXCEPT !.name = event.name]
      [] fn = "welcomed" ->
            [aggregate EXCEPT !.name = PyStr("guest"), !.visits = @ + 1]
      [] fn = "renamed" ->
            [aggregate EXCEPT !.name = event.name]

call_none(fns, aggregate, event) == aggregate

RECURSIVE call_each(_, _, _)
call_each(fns, aggregate, event) ==
    IF fns = <<>> THEN aggregate
    ELSE call_each(Tail(fns), call(Head(fns), aggregate, event), event)

\* The orders in which a loop over a set can visit its members.
Orders(S) ==
    {order \in [1..Cardinality(S) -> S] :
        \A i, j \in 1..Cardinality(S) : i # j => order[i] # order[j]}

\* self._projections[key] of a defaultdict(set): a missing key is added with
\* an empty set.
lookup(registry, key) ==
    IF key \in DOMAIN registry
    THEN [value |-> registry[key], registry |-> registry]
    ELSE [value |-> {}, registry |-> registry @@ (key :> {})]

\* The orders, one per event type, in which one process visits the sets.
VisitOrders(registry) ==
    {v \in [DOMAIN registry -> UNION {Orders(registry[type]) : type \in DOMAIN registry}] :
        \A type \in DOMAIN registry : v[type] \in Orders(registry[type])}

NoAggregate == [none |-> TRUE]

NoApply == [position |-> -1, type |-> "", raised |-> "none", calls |-> <<>>]

\* No replay is under way.
ReplayIdle ==
    /\ stream = <<>>
    /\ agg = Blank
    /\ rnext = 1
    /\ applied = <<>>
    /\ lastApply = NoApply
    /\ projections = event_sourced_aggregate_factory(MethodsOfUser)
    /\ visit = [type \in {} |-> <<>>]
    /\ first = NoAggregate

\* ------------------------------------------- options of the elements
NoClass == ""

NoName == ""

NoValue == ""

AggregateClasses == {"User"}

\* event_sourced_aggregate.py, _default_options: an aggregate's stream name
\* is its class name in underscore form unless it declares one.
aggregate_meta ==
    [User |-> [stream_name |-> "user"], Email |-> [stream_name |-> "email"]]

\* ------------------- event_sourced_aggregate.py: __eq__ of an aggregate
\* An object: its class, the value of its identifier field, another field.
Objects(classes) ==
    [cls : classes, id : {PyNone, PyStr("1"), PyStr("2")},
     name : {PyStr("a"), PyStr("b")}]

ClassNames == {"User", "Email"}

eq_ids_only(self, other) == self.id = other.id

eq_by_reference(self, other) == FALSE

\* __eq__: objects of one class are equal when their identifiers are;
\* objects of different classes are not equal.
eq_(self, other) ==
    IF other.cls = self.cls THEN self.id = other.id ELSE FALSE

\* hash() of a value: equal values have equal hashes.
py_hash(value) ==
    CASE value = PyNone -> 0
      [] value = PyStr("1") -> 1
      [] value = PyStr("2") -> 2
      [] value = PyStr("a") -> 3
      [] value = PyStr("b") -> 4

hash_of_fields(self) == py_hash(self.id) + 5 * py_hash(self.name)

\* __hash__: the hash of the identifier.
hash_(self) == py_hash(self.id)

NoCmp == [none |-> TRUE]

\* ------------- event_sourced_aggregate.py: definition of a subclass
\* The fields a class declares, in the order of the declaration.
Fields ==
    {[name |-> "id", identifier |-> TRUE],
     [name |-> "email", identifier |-> FALSE],
     [name |-> "key", identifier |-> TRUE]}

FieldLists ==
    UNION {{fs \in [1..n -> Fields] :
              \A i, j \in 1..n : i # j => fs[i].name # fs[j].name} :
           n \in 0..MaxFields}

\* __validate_id_field: a class that declares fields needs an identifier
\* among them, and the first one is recorded; a class that declares no field
\* is not looked at.
validate_id_field(fs) ==
    IF fs = <<>>
    THEN [raised |-> "none", id_field |-> NoName]
    ELSE IF \E i \in Indices(fs) : fs[i].identifier
         THEN [raised |-> "none",
               id_field |-> fs[CHOOSE i \in Indices(fs) :
                                 /\ fs[i].identifier
                                 /\ \A j \in 1..(i - 1) : ~fs[j].identifier].name]
         ELSE [raised |-> "IncorrectUsageError", id_field |-> NoName]

EmptyRegistry == [type \in {} |-> {}]

init_subclass_shared(h, fs, abstract) ==
    [raised |-> "none", id_field |-> NoName,
     heap |-> IF h = <<>> THEN <<EmptyRegistry>> ELSE h, ref |-> 1]

\* __init_subclass__: the identifier check of a class that is not abstract,
\* then a new defaultdict(set) as the class's _projections.
init_subclass(h, fs, abstract) ==
    LET v == IF abstract THEN [raised |-> "none", id_field |-> NoName]
             ELSE validate_id_field(fs) IN
    IF v.raised # "none"
    THEN [raised |-> v.raised, id_field |-> NoName, heap |-> h, ref |-> None]
    ELSE [raised |-> "none", id_field |-> v.id_field,
          heap |-> Append(h, EmptyRegistry), ref |-> Len(h) + 1]

MethodsOfEmail ==
    {[name |-> "sent", _event_cls |-> "Sent"],
     [name |-> "email_registered", _event_cls |-> "Registered"]}

MethodsOf == [User |-> MethodsOfUser, Email |-> MethodsOfEmail]

\* event_sourced_aggregate_factory on a class: the methods are added to the
\* collection the class's _projections refers to.
add_methods(registry, methods) ==
    LET found == event_sourced_aggregate_factory(methods) IN
    [type \in DOMAIN registry \cup DOMAIN found |->
        (IF type \in DOMAIN registry THEN registry[type] ELSE {})
        \cup (IF type \in DOMAIN found THEN found[type] ELSE {})]

NoDefinition == [none |-> TRUE]

NoCalled == [none |-> TRUE]

\* ------------------------------------------- registration of handlers
\* test_automatic_stream_association.py: the event classes and the options
\* their Meta declares.
DeclaredMetas ==
    [Registered |-> [aggregate_cls |-> NoClass, stream_name |-> NoName],
     Activated  |-> [aggregate_cls |-> NoClass, stream_name |-> NoName],
     LoggedIn   |-> [aggregate_cls |-> "User", stream_name |-> NoName],
     Subscribed |-> [aggregate_cls |-> NoClass, stream_name |-> "subscriptions"],
     Sent       |-> [aggregate_cls |-> NoClass, stream_name |-> NoName],
     Recalled   |-> [aggregate_cls |-> "Email", stream_name |-> "recalls"]]

\* The event handler classes: their methods marked by @handle and the
\* aggregate class they are registered against.
Handlers ==
    [UserEventHandler |->
        [methods |-> {[name |-> "send_activation_email", _target_cls |-> "Registered"],
                      [name |-> "provision_user", _target_cls |-> "Activated"],
                      [name |-> "send_welcome_email", _target_cls |-> "Activated"],
                      [name |-> "record_login", _target_cls |-> "LoggedIn"],
                      [name |-> "subscribed_for_notifications", _target_cls |-> "Subscribed"]},
         aggregate_cls |-> "User"],
     EmailEventHandler |->
        [methods |-> {[name |-> "record_sent_email", _target_cls |-> "Sent"],
                      [name |-> "record_recalls", _target_cls |-> "Recalled"]},
         aggregate_cls |-> "Email"]]

handles(handler) == {method._target_cls : method \in Handlers[handler].methods}

\* HandlerMixin.__init_subclass__: a new defaultdict(set) as the class's
\* _handlers.
handler_init_subclass(h) ==
    [heap |-> Append(h, EmptyRegistry), ref |-> Len(h) + 1]

\* The methods of a handler class are added, by the type of the event they
\* handle, to the collection the class's _handlers refers to.
add_handlers(registry, methods) ==
    LET types == {fully_qualified_name(method._target_cls) : method \in methods} IN
    [type \in DOMAIN registry \cup types |->
        (IF type \in DOMAIN registry THEN registry[type] ELSE {})
        \cup {method.name : method \in
                {m \in methods : fully_qualified_name(m._target_cls) = type}}]

stream_of_handled_sets_aggregate(meta, aggregate_cls) ==
    [meta EXCEPT !.aggregate_cls = aggregate_cls]

\* The stream of an event a registered handler handles: the event's own
\* stream_name, or that of the aggregate the handler is registered against.
stream_of_handled(meta, aggregate_cls) ==
    [meta EXCEPT !.stream_name =
        IF meta.stream_name # NoName THEN meta.stream_name
        ELSE aggregate_meta[aggregate_cls].stream_name]

register_handler(ms, handler) ==
    [event \in DOMAIN ms |->
        IF event \in handles(handler)
        THEN stream_of_handled(ms[event], Handlers[handler].aggregate_cls)
        ELSE ms[event]]

NoResult == [none |-> TRUE]

\* No Unit-of-Work is active in the DAO's context.
NoSession == [active |-> FALSE, closed |-> FALSE, rows |-> {}]

NoDao ==
    [op |-> "none", in_uow |-> FALSE, outside |-> FALSE, raised |-> "none",
     committed |-> FALSE, closed |-> FALSE]

TypesIdle ==
    /\ cmp = NoCmp
    /\ heap = <<>>
    /\ projOf = [cls \in {} |-> None]
    /\ defined = NoDefinition
    /\ called = NoCalled
    /\ metas = DeclaredMetas
    /\ handlersDone = {}
    /\ result = NoResult
    /\ addressed = <<>>
    /\ table = {}
    /\ session = NoSession
    /\ dao = NoDao

\* ------------------------------------------- message construction: outcome
NoMessage == [none |-> TRUE]

NoElement == [none |-> TRUE]

\* op: the operation called; element: the event or command it was given;
\* raised and messages: the error it raised, if any, and the error's text;
\* message: the Message it built; appended: the records it stored.
Built(op, element, res, appended) ==
    [op |-> op, element |-> element, raised |-> res.raised,
     messages |-> res.messages, message |-> res.message,
     appended |-> appended]

NoBuild ==
    Built("none", NoElement,
          [raised |-> "none", messages |-> "", message |-> NoMessage], 0)

InitBase ==
    /\ store = <<>>
    /\ clock = 0
    /\ last = NoCall
    /\ InitPub
    /\ publishedBy = <<>>
    /\ log = <<>>
    /\ loaded = <<>>
    /\ sent = <<>>
    /\ built = NoBuild
    /\ TypesIdle

Init == InitBase /\ ReplayIdle

\* ------------------------------------------------------------- actions
\* message_id is generated (Auto) unless the caller supplies one: a fresh id
\* is the next unused number, a supplied one may be that of a stored record.
AppendMessage ==
    /\ Len(store) < MaxRecords
    /\ \E message \in Messages(1..(Len(store) + 1)) :
         LET res == create(store, from_message(message)) IN
         /\ store' = res.store
         /\ last' = Call("append", message.message_id, "none", message.status, res.raised)
         /\ publishedBy' = [i \in Indices(res.store) |-> {}]
    /\ UNCHANGED <<clock, pc, cur, uow, db, discarded, scopes, msgVars>>

MarkPublished ==
    \E i \in Indices(store) :
        /\ store' = [store EXCEPT ![i] = mark_published(store[i])]
        /\ last' = Call("mark_published", i, store[i].status, store'[i].status, "none")
        /\ UNCHANGED <<clock, pubVars, msgVars>>

MarkConsumed ==
    \E i \in Indices(store) :
        /\ store' = [store EXCEPT ![i] = mark_consumed(store[i])]
        /\ last' = Call("mark_consumed", i, store[i].status, store'[i].status, "none")
        /\ UNCHANGED <<clock, pubVars, msgVars>>

GetNextToPublish ==
    \E i \in get_next_to_publish(store) :
        /\ last' = Call("get_next_to_publish", i, "none", "none", "none")
        /\ UNCHANGED <<store, clock, pubVars, msgVars>>

\* ------------------------------------------------------- publish cycle
\* A producer appends a message with a fresh message_id.
Produce ==
    /\ Len(store) < MaxRecords
    /\ \E message \in Messages({Len(store) + 1}) :
         /\ store' = create(store, from_message(message)).store
         /\ publishedBy' = Append(publishedBy, {})
    /\ UNCHANGED <<clock, apiVars, pc, cur, uow, db, discarded, scopes, msgVars>>

\* A publisher polls the store for the next record to publish.
Poll(p) ==
    /\ pc[p] = "idle"
    /\ \E i \in get_next_to_publish(store) :
         /\ i # None
         /\ cur' = [cur EXCEPT ![p] = i]
    /\ pc' = [pc EXCEPT ![p] = "picked"]
    /\ UNCHANGED <<store, clock, apiVars, uow, db, publishedBy, discarded, scopes, msgVars>>

\* The record is handed to a handler: the wrapper opens its Unit-of-Work.
HandlerEnter(p) ==
    /\ pc[p] = "picked"
    /\ uow' = [uow EXCEPT ![p] = wrapper_enter(uow[p])]
    /\ scopes' = [scopes EXCEPT ![p] = with_enter(scopes[p])]
    /\ pc' = [pc EXCEPT ![p] = "handling"]
    /\ UNCHANGED <<store, clock, apiVars, cur, db, publishedBy, discarded, msgVars>>

\* The handler function performs a persistence operation.
HandlerWrite(p) ==
    /\ pc[p] = "handling"
    /\ \E w \in Writes :
         LET item == <<p, w>>
             res == dao_create(uow[p], db, item) IN
         /\ item \notin uow[p].pending
         /\ uow' = [uow EXCEPT ![p] = res.uow]
         /\ db' = res.db
    /\ UNCHANGED <<store, clock, apiVars, pc, cur, publishedBy, discarded, scopes, msgVars>>

\* The handler function returns.
HandlerReturn(p) ==
    /\ pc[p] = "handling"
    /\ scopes[p] = 1
    /\ scopes' = [scopes EXCEPT ![p] = with_exit(scopes[p])]
    /\ LET res == wrapper_exit(uow[p], db) IN
         /\ uow' = [uow EXCEPT ![p] = res.uow]
         /\ db' = res.db
    /\ pc' = [pc EXCEPT ![p] = "handled"]
    /\ UNCHANGED <<store, clock, apiVars, cur, publishedBy, discarded, msgVars>>

\* The handler function raises: the exception reaches the publisher, which
\* does not go on to mark the record.
HandlerRaise(p) ==
    /\ pc[p] = "handling"
    /\ scopes[p] = 1
    /\ scopes' = [scopes EXCEPT ![p] = with_exit(scopes[p])]
    /\ LET res == wrapper_exit_raised(uow[p], db) IN
         /\ uow' = [uow EXCEPT ![p] = res.uow]
         /\ db' = res.db
    /\ discarded' = [discarded EXCEPT ![p] = uow[p].pending]
    /\ pc' = [pc EXCEPT ![p] = "failed"]
    /\ UNCHANGED <<store, clock, apiVars, cur, publishedBy, msgVars>>

\* The handler function calls another decorated handler in its own context:
\* that handler's wrapper enters its with block while the caller's is open.
\* What the inner Unit-of-Work does with the caller's pending writes is not
\* the wrapper's; the handlers that make such calls write nothing here.
HandlerCall(p) ==
    /\ pc[p] = "handling"
    /\ uow[p].pending = {}
    /\ scopes[p] < MaxDepth
    /\ scopes' = [scopes EXCEPT ![p] = with_enter(scopes[p])]
    /\ UNCHANGED <<store, clock, apiVars, pc, cur, uow, db, publishedBy, discarded, msgVars>>

\* The called handler is done and its with block is left.
HandlerCallReturn(p) ==
    /\ pc[p] = "handling"
    /\ scopes[p] > 1
    /\ scopes' = [scopes EXCEPT ![p] = with_exit(scopes[p])]
    /\ UNCHANGED <<store, clock, apiVars, pc, cur, uow, db, publishedBy, discarded, msgVars>>

\* The publisher starts its next cycle after a failed dispatch.
Retry(p) ==
    /\ pc[p] = "failed"
    /\ pc' = [pc EXCEPT ![p] = "idle"]
    /\ cur' = [cur EXCEPT ![p] = None]
    /\ discarded' = [discarded EXCEPT ![p] = {}]
    /\ UNCHANGED <<store, clock, apiVars, uow, db, publishedBy, scopes, msgVars>>

\* After the dispatch the publisher marks the record it picked and saves it.
PublisherMark(p) ==
    /\ pc[p] = "handled"
    /\ store' = [store EXCEPT ![cur[p]] = mark_published(store[cur[p]])]
    /\ publishedBy' = [publishedBy EXCEPT ![cur[p]] = @ \cup {p}]
    /\ pc' = [pc EXCEPT ![p] = "idle"]
    /\ cur' = [cur EXCEPT ![p] = None]
    /\ UNCHANGED <<clock, apiVars, uow, db, discarded, scopes, msgVars>>

\* A consumer marks a published record consumed.
Consume ==
    /\ \E i \in Indices(store) :
         /\ store[i].status = "PUBLISHED"
         /\ store' = [store EXCEPT ![i] = mark_consumed(store[i])]
    /\ UNCHANGED <<clock, apiVars, pubVars, msgVars>>

\* ------------------------------------------------------- message store
StreamNames == {"user-1", "user-2", "user:command-1"}

InStream(l, stream_name) ==
    {i \in Indices(l) : l[i].stream_name = stream_name}

\* A Message that has not been stored has no position.
NewMessage(stream_name, type, data, metadata) ==
    [stream_name     |-> stream_name,
     type            |-> type,
     data            |-> data,
     metadata        |-> metadata,
     position        |-> None,
     global_position |-> None]

\* The message store's write: data and metadata are kept as JSON text, and
\* the message gets the next position of its stream (from 0) and the next
\* global position (from 1).
es_write(l, message) ==
    Append(l, [stream_name     |-> message.stream_name,
               type            |-> message.type,
               data            |-> json_dumps(message.data),
               metadata        |-> json_dumps(metadata_to_dict(message.metadata)),
               position        |-> Cardinality(InStream(l, message.stream_name)),
               global_position |-> Len(l) + 1])

\* ----------------------------------------------- mixins.py: Message
from_dict_swapped(message) ==
    [stream_name     |-> message.stream_name,
     type            |-> message.type,
     data            |-> json_loads(message.data),
     metadata        |-> MessageMetadata(json_loads(message.metadata)),
     position        |-> message.global_position,
     global_position |-> message.position]

from_dict_without_data(message) ==
    [stream_name     |-> message.stream_name,
     type            |-> message.type,
     data            |-> {},
     metadata        |-> MessageMetadata(json_loads(message.metadata)),
     position        |-> message.position,
     global_position |-> message.global_position]

\* Message.from_dict: stream_name, type, position and global_position are
\* taken from the persisted message as they are, data and metadata are
\* parsed from their JSON text.
from_dict(message) ==
    [stream_name     |-> message.stream_name,
     type            |-> message.type,
     data            |-> json_loads(message.data),
     metadata        |-> MessageMetadata(json_loads(message.metadata)),
     position        |-> message.position,
     global_position |-> message.global_position]

WriteMessage ==
    /\ Len(log) < MaxMessages
    /\ \E stream_name \in StreamNames :
         LET message == NewMessage(stream_name, "tests.Registered", {},
                                   NewMetadata("EVENT")) IN
         /\ log' = es_write(log, message)
         /\ sent' = Append(sent, message)
    /\ UNCHANGED <<storeVars, apiVars, pubVars, loaded, built, farVars>>

\* The message store is read: every persisted message becomes a Message.
ReadMessages ==
    /\ loaded' = [i \in Indices(log) |-> from_dict(log[i])]
    /\ UNCHANGED <<storeVars, apiVars, pubVars, log, sent, built, farVars>>

\* ------------------------------------------------- events and commands
Ids == {"1"}

\* The values str(uuid4()) returns.
FreshIds == {"u1", "u2"}

\* An event or command object: its class name, the aggregate_cls and
\* stream_name of its meta_ (either may be missing), whether it declares an
\* identifier field, and that field's value.
Elements(names) ==
    {e \in [name : names, aggregate_cls : {NoClass} \cup AggregateClasses,
            stream_name : {NoName, "foo"}, id_field : BOOLEAN,
            id : {NoValue} \cup Ids] :
        e.id_field <=> e.id # NoValue}

Events == Elements({"Registered"})

Commands == Elements({"Register"})

has_id_field(element) == element.id_field

to_dict(element) ==
    IF has_id_field(element) THEN {<<PyStr("id"), PyStr(element.id)>>} ELSE {}

Raised(text) ==
    [raised |-> "IncorrectUsageError", messages |-> text, message |-> NoMessage]

Returned(message) ==
    [raised |-> "none", messages |-> "", message |-> message]

\* ------------------------------- mixins.py: Message.to_event_message
\* Lines 137 and 170: Python's `or` on the two meta_ options; None and the
\* empty string both count as missing.
is_associated(element) ==
    element.aggregate_cls # NoClass \/ element.stream_name # NoName

\* Lines 146-149: the identifier field's value, or a new uuid.
event_identifier(event, uuid) ==
    IF has_id_field(event) THEN event.id ELSE uuid

event_stream_root_aggregate_first(event) ==
    IF event.aggregate_cls # NoClass
    THEN aggregate_meta[event.aggregate_cls].stream_name
    ELSE event.stream_name

\* Lines 152-154: the explicit stream name, or else the aggregate's.
event_stream_root(event) ==
    IF event.stream_name # NoName
    THEN event.stream_name
    ELSE aggregate_meta[event.aggregate_cls].stream_name

\* The error's text is the source's without the backquotes around the name.
to_event_message_unchecked(event, uuid) ==
    Returned(NewMessage(event.stream_name \o "-" \o event_identifier(event, uuid),
                        fully_qualified_name(event.name), to_dict(event),
                        NewMetadata("EVENT")))

to_event_message(event, uuid) ==
    IF ~is_associated(event)
    THEN Raised("Event " \o event.name
                \o " needs to be associated with an aggregate or a stream")
    ELSE Returned(NewMessage(event_stream_root(event) \o "-"
                                 \o event_identifier(event, uuid),
                             fully_qualified_name(event.name), to_dict(event),
                             NewMetadata("EVENT")))

\* An event is turned into a Message.
ToEventMessage ==
    /\ \E event \in Events, uuid \in FreshIds :
         built' = Built("to_event_message", event,
                        to_event_message(event, uuid), 0)
    /\ UNCHANGED <<storeVars, apiVars, pubVars, log, loaded, sent, farVars>>

\* ----------------------------- mixins.py: Message.to_command_message
command_identifier(command, uuid) ==
    IF has_id_field(command) THEN command.id ELSE uuid

command_stream_root(command) ==
    IF command.stream_name # NoName
    THEN command.stream_name
    ELSE aggregate_meta[command.aggregate_cls].stream_name

command_stream_name_as_event(root, identifier) == root \o "-" \o identifier

\* Line 191.
command_stream_name(root, identifier) == root \o ":command-" \o identifier

to_command_message_unchecked(command, uuid) ==
    Returned(NewMessage(command_stream_name(command.stream_name,
                                            command_identifier(command, uuid)),
                        fully_qualified_name(command.name), to_dict(command),
                        NewMetadata("COMMAND")))

to_command_message(command, uuid) ==
    IF ~is_associated(command)
    THEN Raised("Command " \o command.name
                \o " needs to be associated with an aggregate or a stream")
    ELSE Returned(NewMessage(command_stream_name(command_stream_root(command),
                                                 command_identifier(command, uuid)),
                             fully_qualified_name(command.name),
                             to_dict(command), NewMetadata("COMMAND")))

\* domain.process: the command is turned into a Message, which is appended
\* to the message store; an error of the conversion reaches the caller.
process(l, command, uuid) ==
    LET res == to_command_message(command, uuid) IN
    [res |-> res,
     log |-> IF res.raised = "none" THEN es_write(l, res.message) ELSE l]

Process ==
    /\ Len(log) < MaxCommands
    /\ \E command \in Commands, uuid \in FreshIds :
         LET out == process(log, command, uuid) IN
         /\ log' = out.log
         /\ sent' = IF out.res.raised = "none"
                    THEN Append(sent, out.res.message) ELSE sent
         /\ built' = Built("process", command, out.res, Len(out.log) - Len(log))
    /\ UNCHANGED <<storeVars, apiVars, pubVars, loaded, farVars>>

\* C13: to_event_message of an event that has neither an aggregate_cls nor a
\* stream_name raises the association error with a text that names the
\* event's class, and builds no message; the message store is not touched.
C13_UnassociatedEventRaises ==
    /\ [](built.op = "to_event_message" /\ ~is_associated(built.element) =>
            /\ built.raised = "IncorrectUsageError"
            /\ built.messages = "Event " \o built.element.name
                   \o " needs to be associated with an aggregate or a stream"
            /\ built.message = NoMessage
            /\ built.appended = 0)
    /\ [][built'.op = "to_event_message" => log' = log]_vars

C13_Witness ==
    /\ built.op = "to_event_message"
    /\ built.element.aggregate_cls = NoClass
    /\ built.element.stream_name = NoName
    /\ built.raised = "IncorrectUsageError"
    /\ Len(log) = 1

\* C14: processing a command that has neither an aggregate_cls nor a
\* stream_name raises the association error with a text that names the
\* command's class, and appends no record to the message store.
C14_UnassociatedCommandRaises ==
    /\ [](built.op = "process" /\ ~is_associated(built.element) =>
            /\ built.raised = "IncorrectUsageError"
            /\ built.messages = "Command " \o built.element.name
                   \o " needs to be associated with an aggregate or a stream"
            /\ built.message = NoMessage
            /\ built.appended = 0)
    /\ [][built'.op = "process" /\ ~is_associated(built'.element) =>
            log' = log]_vars

C14_Witness ==
    /\ built.op = "process"
    /\ built.element.aggregate_cls = NoClass
    /\ built.element.stream_name = NoName
    /\ built.raised = "IncorrectUsageError"
    /\ built.messages =
          "Command Register needs to be associated with an aggregate or a stream"
    /\ Len(log) = 1

\* C15: the stream_name of an event's Message is "<root>-<identifier>": the
\* root is the event's own stream_name if it has one, also when it has an
\* aggregate_cls as well, and the aggregate's stream name otherwise; the
\* identifier is the value of the event's identifier field if it declares
\* one, and a new uuid otherwise.
C15_EventStreamName ==
    built.op = "to_event_message" /\ is_associated(built.element) =>
        LET event == built.element
            root == IF event.stream_name # NoName
                    THEN event.stream_name
                    ELSE aggregate_meta[event.aggregate_cls].stream_name IN
        /\ built.raised = "none"
        /\ IF event.id_field
           THEN built.message.stream_name = root \o "-" \o event.id
           ELSE \E uuid \in FreshIds :
                   built.message.stream_name = root \o "-" \o uuid

C15_Witness ==
    /\ built.op = "to_event_message"
    /\ built.element.aggregate_cls = "User"
    /\ built.element.stream_name = "foo"
    /\ ~built.element.id_field
    /\ built.message.stream_name = "foo-u2"

\* C16: processing a command that is associated with an aggregate of stream
\* name R, or that has the stream_name R of its own, and whose identifier is
\* I, appends exactly one record, with the stream_name "R:command-I".
C16_CommandAppendsOneRecord ==
    [][built'.op = "process" /\ is_associated(built'.element) =>
         LET command == built'.element
             R == IF command.stream_name # NoName
                  THEN command.stream_name
                  ELSE aggregate_meta[command.aggregate_cls].stream_name IN
         /\ Len(log') = Len(log) + 1
         /\ SubSeq(log', 1, Len(log)) = log
         /\ built'.appended = 1
         /\ IF command.id_field
            THEN log'[Len(log')].stream_name = R \o ":command-" \o command.id
            ELSE \E uuid \in FreshIds :
                    log'[Len(log')].stream_name = R \o ":command-" \o uuid]_vars

C16_Witness ==
    /\ built.op = "process"
    /\ built.element.aggregate_cls = "User"
    /\ built.element.stream_name = NoName
    /\ built.element.id = "1"
    /\ Len(log) = 2
    /\ log[1].stream_name = "foo:command-u1"
    /\ log[2].stream_name = "user:command-1"

NextAddr ==
    \/ ToEventMessage
    \/ Process

SpecAddr == Init /\ [][NextAddr]_vars

\* ------------------------------------------------- Messages of any data
\* Message.data is a Dict field: a key of the dict, or of a dict inside it,
\* is a string or not.
DataKeys == {PyStr("id"), PyStr("1"), PyInt("1")}

Datas == {{}} \cup {{<<key, PyStr("a")>>} : key \in DataKeys}

RawMessages ==
    {NewMessage(stream_name, fully_qualified_name("Registered"), data,
                NewMetadata(kind)) :
        stream_name \in {"user-1", "foo-u1"}, data \in Datas,
        kind \in MessageType}

\* A Message is handed to the message store.
StoreMessage ==
    /\ Len(log) < MaxStored
    /\ \E message \in RawMessages :
         /\ log' = es_write(log, message)
         /\ sent' = Append(sent, message)
    /\ UNCHANGED <<storeVars, apiVars, pubVars, loaded, built, farVars>>

SameContent(m1, m2) ==
    /\ m1.stream_name = m2.stream_name
    /\ m1.type = m2.type
    /\ m1.data = m2.data
    /\ m1.metadata = m2.metadata

\* C17: every Message read back from its persisted form has the stream_name,
\* type, data and metadata of the Message that was stored.
C17_RoundTrip ==
    \A i \in Indices(loaded) : SameContent(loaded[i], sent[i])

StringKeys(data) == \A item \in data : item[1].t = "str"

\* C17, restricted: every Message whose data has only string keys, as JSON
\* objects have, is read back from its persisted form with the stream_name,
\* type, data and metadata it was stored with.
C17_RoundTripOfJsonData ==
    \A i \in Indices(loaded) :
        StringKeys(sent[i].data) => SameContent(loaded[i], sent[i])

C17_Witness ==
    /\ Len(loaded) = 2
    /\ sent[1].data = {<<PyStr("1"), PyStr("a")>>}
    /\ sent[1].metadata.kind = PyStr("COMMAND")
    /\ loaded[1].data = {<<PyStr("1"), PyStr("a")>>}
    /\ loaded[1].metadata = sent[1].metadata
    /\ sent[2].data = {<<PyStr("id"), PyStr("a")>>}
    /\ loaded[2].position = 0

NextCodec ==
    \/ StoreMessage
    \/ ReadMessages

SpecCodec == Init /\ [][NextCodec]_vars

\* ------------------------------------------------------------ replay
event_dict(cls, data) ==
    [type |-> fully_qualified_name(cls), data |-> json_dumps(data)]

EventDicts ==
    {event_dict("Registered", {<<PyStr("id"), PyStr(id)>>, <<PyStr("name"), PyStr(name)>>}) :
        id \in {"1", "2"}, name \in {"a", "b"}}
    \cup {event_dict("Renamed", {<<PyStr("id"), PyStr("1")>>, <<PyStr("name"), PyStr(name)>>}) :
        name \in {"a", "b"}}
    \cup {event_dict("Deleted", {<<PyStr("id"), PyStr("1")>>})}

\* The message store's read of one stream: its records by position, from 0.
Streams ==
    UNION {{[i \in 1..n |-> [type |-> events[i].type, data |-> events[i].data,
                             position |-> i - 1]] :
                events \in [1..n -> EventDicts]} : n \in 0..MaxEvents}

apply_on_blank(aggregate, registry, record, order) ==
    LET event == event_object(record.type, json_loads(record.data)) IN
    [agg      |-> call_each(order, Blank, event),
     registry |-> lookup(registry, record.type).registry,
     raised   |-> "none",
     calls    |-> order]

apply_twice(aggregate, registry, record, order) ==
    LET event == event_object(record.type, json_loads(record.data)) IN
    [agg      |-> call_each(order \o order, aggregate, event),
     registry |-> lookup(registry, record.type).registry,
     raised   |-> "none",
     calls    |-> order \o order]

\* BaseEventSourcedAggregate._apply: every member of the set of projections
\* of the event's type is called with the event object; order is the order
\* in which the loop visits the set. No error is raised for an empty set.
apply_(aggregate, registry, record, order) ==
    LET event == event_object(record.type, json_loads(record.data)) IN
    [agg      |-> call_each(order, aggregate, event),
     registry |-> lookup(registry, record.type).registry,
     raised   |-> "none",
     calls    |-> order]

\* Replay hands the next record of the stream to _apply.
ApplyNext ==
    /\ rnext <= Len(stream)
    /\ LET record == stream[rnext]
           order == IF record.type \in DOMAIN visit
                    THEN visit[record.type] ELSE <<>>
           res == apply_(agg, projections, record, order) IN
         /\ agg' = res.agg
         /\ projections' = res.registry
         /\ applied' = applied \o [i \in 1..Len(res.calls) |->
                                     [fn |-> res.calls[i],
                                      position |-> record.position]]
         /\ lastApply' = [position |-> record.position, type |-> record.type,
                          raised |-> res.raised, calls |-> res.calls]
    /\ rnext' = rnext + 1
    /\ UNCHANGED <<storeVars, apiVars, pubVars, log, loaded, sent, built, stream,
                   visit, first, typeVars, queryVars>>

\* The stream has been replayed, and is replayed once more from a blank
\* aggregate, in this or in another process of the application.
ReplayAgain ==
    /\ rnext > Len(stream)
    /\ first = NoAggregate
    /\ first' = agg
    /\ agg' = Blank
    /\ rnext' = 1
    /\ applied' = <<>>
    /\ lastApply' = NoApply
    /\ projections' = event_sourced_aggregate_factory(MethodsOfUser)
    /\ visit' \in VisitOrders(projections')
    /\ UNCHANGED <<storeVars, apiVars, pubVars, log, loaded, sent, built, stream,
                   typeVars, queryVars>>

\* The methods the aggregate class declares for an event type.
Registered(type) ==
    {method.name : method \in
        {m \in MethodsOfUser : fully_qualified_name(m._event_cls) = type}}

RECURSIVE Fold(_, _)
Fold(calls, n) ==
    IF n = 0 THEN Blank
    ELSE LET record == stream[calls[n].position + 1] IN
         call(calls[n].fn, Fold(calls, n - 1),
              event_object(record.type, json_loads(record.data)))

\* C18: replay starts from a blank aggregate and applies the records of the
\* stream in ascending position order, each exactly once: the calls made so
\* far are, position by position, one call of each projection declared for
\* the record's type, and the aggregate is the fold of these calls.
C18_ReplayIsSequentialFold ==
    /\ \A i, j \in Indices(applied) :
          i < j => applied[i].position <= applied[j].position
    /\ \A i \in Indices(applied) :
          /\ applied[i].position + 1 < rnext
          /\ applied[i].fn \in Registered(stream[applied[i].position + 1].type)
    /\ \A k \in 1..(rnext - 1) : \A fn \in Registered(stream[k].type) :
          Cardinality({i \in Indices(applied) :
                          applied[i] = [fn |-> fn, position |-> k - 1]}) = 1
    /\ agg = Fold(applied, Len(applied))
    /\ rnext = 1 => agg = Blank

C18_Witness ==
    /\ rnext = 4
    /\ stream[1].type = "tests.Registered"
    /\ stream[2].type = "tests.Renamed"
    /\ stream[3].type = "tests.Renamed"
    /\ agg = [id |-> PyStr("1"), name |-> PyStr("b"), visits |-> 1]
    /\ Len(applied) = 4

\* C19: one _apply of an event whose type has two or more projections calls
\* each of them exactly once, and calls no projection declared for another
\* type.
C19_FanOut ==
    lastApply.position >= 0 =>
        /\ {lastApply.calls[i] : i \in Indices(lastApply.calls)}
              = Registered(lastApply.type)
        /\ Len(lastApply.calls) = Cardinality(Registered(lastApply.type))

C19_Witness ==
    /\ lastApply.type = "tests.Registered"
    /\ lastApply.calls = <<"welcomed", "registered">>
    /\ agg.visits = 1
    /\ agg.name = PyStr("a")

\* C20: _apply of an event whose type has no projection raises
\* UnknownProjectionError.
C20_UnknownProjectionRaises ==
    lastApply.position >= 0 /\ Registered(lastApply.type) = {} =>
        lastApply.raised = "UnknownProjectionError"

SingleEventReplayed == Len(stream) = 1 /\ rnext = 2

FirstEvent == event_object(stream[1].type, json_loads(stream[1].data))

\* C21: after the replay of a stream of one event, the aggregate is what a
\* direct call of a projection declared for the event's type makes of a
\* blank aggregate and that event.
C21_SingleEventReplayIsDirectCall ==
    SingleEventReplayed =>
        \A fn \in Registered(stream[1].type) :
            agg = call(fn, Blank, FirstEvent)

\* C21, restricted: after the replay of a stream of one event whose type has
\* exactly one projection, the aggregate is what a direct call of that
\* projection makes of a blank aggregate and that event.
C21_SingleProjectionReplayIsDirectCall ==
    SingleEventReplayed /\ Cardinality(Registered(stream[1].type)) = 1 =>
        \A fn \in Registered(stream[1].type) :
            agg = call(fn, Blank, FirstEvent)

C21_Witness ==
    /\ SingleEventReplayed
    /\ stream[1].type = "tests.Renamed"
    /\ agg = [id |-> PyNone, name |-> PyStr("b"), visits |-> 0]
    /\ applied = <<[fn |-> "renamed", position |-> 0]>>

Replayed == rnext > Len(stream)

\* C30: two replays of one stream for one aggregate type end in the same
\* aggregate state, also when two projections of one event type write the
\* same field.
C30_ReplayIsDeterministic ==
    first # NoAggregate /\ Replayed => agg = first

\* C37: _apply leaves the set of event types of the class's _projections as
\* it was, also for an event of a type no projection is registered for.
C37_ApplyKeepsRegistries ==
    [][rnext' = rnext + 1 => DOMAIN projections' = DOMAIN projections]_vars

AsObject(aggregate) ==
    [cls |-> "User", id |-> aggregate.id, name |-> aggregate.name]

\* C31: two replays of one stream give two aggregates that are equal, and
\* the events applied to the second one change neither the first one nor
\* the stream.
C31_ReplaysAreIndependent ==
    /\ [](first # NoAggregate /\ Replayed =>
            eq_(AsObject(first), AsObject(agg)))
    /\ [][first # NoAggregate /\ rnext' = rnext + 1 =>
            first' = first /\ stream' = stream]_vars

\* The stream is replayed twice: the second aggregate got its events while
\* the first one kept the identifier and the name it had.
C31_Witness ==
    /\ first # NoAggregate
    /\ Replayed
    /\ Len(stream) >= 2
    /\ first.id = PyStr("1")
    /\ agg.id = PyStr("1")
    /\ first.name = PyStr("b")
    /\ agg # Blank

InitReplay ==
    /\ InitBase
    /\ stream \in Streams
    /\ agg = Blank
    /\ rnext = 1
    /\ applied = <<>>
    /\ lastApply = NoApply
    /\ projections = event_sourced_aggregate_factory(MethodsOfUser)
    /\ visit \in VisitOrders(projections)
    /\ first = NoAggregate

NextReplay ==
    \/ ApplyNext
    \/ ReplayAgain

SpecReplay == InitReplay /\ [][NextReplay]_vars

\* C9: in the messages read after any sequence of appends, the positions of
\* one stream are 0..n-1 in append order, without gap or duplicate, and
\* global_position grows strictly in append order across all streams.
C9_PositionsGapless ==
    /\ \A i \in Indices(loaded) :
          loaded[i].position =
             Cardinality({j \in 1..(i - 1) :
                            loaded[j].stream_name = loaded[i].stream_name})
    /\ \A i, j \in Indices(loaded) :
          i < j => loaded[i].global_position < loaded[j].global_position

C9_Witness ==
    /\ Len(loaded) = 4
    /\ Cardinality(InStream(loaded, "user-1")) = 2
    /\ Cardinality(InStream(loaded, "user:command-1")) = 2
    /\ loaded[1].stream_name = "user-1"
    /\ loaded[2].stream_name = "user:command-1"
    /\ loaded[3].stream_name = "user-1"

NextStream ==
    \/ WriteMessage
    \/ ReadMessages

SpecStream == Init /\ [][NextStream]_vars

\* ---------------------------------- the stream names of several messages
\* Stream names a Meta may declare and identifier values an element may
\* hold: any text, the separators of the stream name's format included.
DeclaredStreamNames == {NoName, "user-1", "user:command"}

HeldIds == {"1", "1-1"}

AddressedElements(names) ==
    {e \in [name : names, aggregate_cls : {NoClass} \cup AggregateClasses,
            stream_name : DeclaredStreamNames, id_field : BOOLEAN,
            id : {NoValue} \cup HeldIds] :
        e.id_field <=> e.id # NoValue}

Addressed(kind, root, identifier, message) ==
    [kind |-> kind, root |-> root, identifier |-> identifier,
     stream_name |-> message.stream_name]

\* An event is turned into a Message; the message built is kept with the
\* root and the identifier it was built from.
AddressEvent ==
    /\ Len(addressed) < MaxAddressed
    /\ \E event \in AddressedElements({"Registered"}), uuid \in FreshIds :
         LET res == to_event_message(event, uuid) IN
         addressed' =
            IF res.raised = "none"
            THEN Append(addressed,
                        Addressed("EVENT", event_stream_root(event),
                                  event_identifier(event, uuid), res.message))
            ELSE addressed
    /\ UNCHANGED <<storeVars, apiVars, pubVars, log, loaded, sent, built,
                   replayVars, typeVars, result, table, session, dao>>

\* A command is turned into a Message.
AddressCommand ==
    /\ Len(addressed) < MaxAddressed
    /\ \E command \in AddressedElements({"Register"}), uuid \in FreshIds :
         LET res == to_command_message(command, uuid) IN
         addressed' =
            IF res.raised = "none"
            THEN Append(addressed,
                        Addressed("COMMAND", command_stream_root(command),
                                  command_identifier(command, uuid), res.message))
            ELSE addressed
    /\ UNCHANGED <<storeVars, apiVars, pubVars, log, loaded, sent, built,
                   replayVars, typeVars, result, table, session, dao>>

\* C38: two messages have the same stream_name only if they are of the same
\* kind and were built from the same root and the same identifier.
C38_AddressingIsInjective ==
    \A i, j \in 1..Len(addressed) :
        addressed[i].stream_name = addressed[j].stream_name =>
            /\ addressed[i].kind = addressed[j].kind
            /\ addressed[i].root = addressed[j].root
            /\ addressed[i].identifier = addressed[j].identifier

NextInj == AddressEvent \/ AddressCommand

SpecInj == Init /\ [][NextInj]_vars

\* --------------------------------- sqlalchemy.py: the sessions of SADAO
\* A stored record is <<identifier, value>>; table holds the committed
\* records, session.rows the records as the Unit-of-Work's session sees them
\* (the committed ones with its pending writes applied).
RowIds == 1..MaxRows

RowValues == {"a", "b"}

ModelObjs == RowIds \X RowValues

\* A criteria either matches every record or the records of some identifiers.
Criterias == {[all |-> all, ids |-> ids] : all \in BOOLEAN, ids \in SUBSET RowIds}

Matches(criteria, row) == criteria.all \/ row[1] \in criteria.ids

\* conn.query(self.model_cls).get(identifier)
HasRow(rows, identifier) == \E row \in rows : row[1] = identifier

\* current_uow is truthy while a Unit-of-Work is in progress.
current_uow == session.active

\* _get_session: the Unit-of-Work's session, or a new connection that sees
\* the committed records.
get_session(outside_uow) ==
    IF current_uow /\ ~outside_uow
    THEN [own |-> FALSE, rows |-> session.rows]
    ELSE [own |-> TRUE, rows |-> table]

Done(op, outside_uow, raised, committed, closed) ==
    [op |-> op, in_uow |-> current_uow, outside |-> outside_uow,
     raised |-> raised, committed |-> committed, closed |-> closed]

\* The finally clause of every operation: commit and close when no
\* Unit-of-Work is in progress, else leave the connection as it is.
finally_(op, outside_uow, conn, rows) ==
    IF ~current_uow
    THEN [table |-> rows, session |-> session,
          dao |-> Done(op, outside_uow, "none", TRUE, TRUE)]
    ELSE [table |-> table,
          session |-> IF conn.own THEN session
                      ELSE [session EXCEPT !.rows = rows],
          dao |-> Done(op, outside_uow, "none", FALSE, FALSE)]

\* db_item is None: conn.rollback(); conn.close(); raise ObjectNotFoundError
not_found(op, outside_uow, conn) ==
    [table |-> table,
     session |-> IF conn.own THEN session
                 ELSE [session EXCEPT !.rows = table, !.closed = TRUE],
     dao |-> Done(op, outside_uow, "ObjectNotFoundError", FALSE, TRUE)]

sa_filter(criteria, outside_uow) ==
    LET conn == get_session(outside_uow) IN
    finally_("_filter", outside_uow, conn, conn.rows)

sa_create(model_obj, outside_uow) ==
    LET conn == get_session(outside_uow) IN
    finally_("_create", outside_uow, conn, conn.rows \cup {model_obj})

sa_update(model_obj, outside_uow) ==
    LET conn == get_session(outside_uow) IN
    IF ~HasRow(conn.rows, model_obj[1])
    THEN not_found("_update", outside_uow, conn)
    ELSE finally_("_update", outside_uow, conn,
                  {row \in conn.rows : row[1] # model_obj[1]} \cup {model_obj})

sa_update_all(criteria, value, outside_uow) ==
    LET conn == get_session(outside_uow) IN
    finally_("_update_all", outside_uow, conn,
             {IF Matches(criteria, row) THEN <<row[1], value>> ELSE row :
                  row \in conn.rows})

sa_delete(model_obj, outside_uow) ==
    LET conn == get_session(outside_uow) IN
    IF ~HasRow(conn.rows, model_obj[1])
    THEN not_found("_delete", outside_uow, conn)
    ELSE finally_("_delete", outside_uow, conn,
                  {row \in conn.rows : row[1] # model_obj[1]})

sa_delete_all(criteria, outside_uow) ==
    LET conn == get_session(outside_uow) IN
    finally_("_delete_all", outside_uow, conn,
             {row \in conn.rows : ~Matches(criteria, row)})

sa_raw(outside_uow) ==
    LET conn == get_session(outside_uow) IN
    finally_("_raw", outside_uow, conn, conn.rows)

daoFrame ==
    <<storeVars, apiVars, pubVars, log, loaded, sent, built,
      replayVars, typeVars, result, addressed>>

Filter ==
    \E criteria \in Criterias, outside_uow \in BOOLEAN :
        LET next == sa_filter(criteria, outside_uow) IN
        /\ table' = next.table
        /\ session' = next.session
        /\ dao' = next.dao
        /\ UNCHANGED daoFrame

\* The record created has an identifier its connection holds no record of.
Create ==
    \E model_obj \in ModelObjs, outside_uow \in BOOLEAN :
        /\ ~HasRow(get_session(outside_uow).rows, model_obj[1])
        /\ LET next == sa_create(model_obj, outside_uow) IN
             /\ table' = next.table
             /\ session' = next.session
             /\ dao' = next.dao
             /\ UNCHANGED daoFrame

Update ==
    \E model_obj \in ModelObjs, outside_uow \in BOOLEAN :
        LET next == sa_update(model_obj, outside_uow) IN
        /\ table' = next.table
        /\ session' = next.session
        /\ dao' = next.dao
        /\ UNCHANGED daoFrame

UpdateAll ==
    \E criteria \in Criterias, value \in RowValues, outside_uow \in BOOLEAN :
        LET next == sa_update_all(criteria, value, outside_uow) IN
        /\ table' = next.table
        /\ session' = next.session
        /\ dao' = next.dao
        /\ UNCHANGED daoFrame

Delete ==
    \E model_obj \in ModelObjs, outside_uow \in BOOLEAN :
        LET next == sa_delete(model_obj, outside_uow) IN
        /\ table' = next.table
        /\ session' = next.session
        /\ dao' = next.dao
        /\ UNCHANGED daoFrame

DeleteAll ==
    \E criteria \in Criterias, outside_uow \in BOOLEAN :
        LET next == sa_delete_all(criteria, outside_uow) IN
        /\ table' = next.table
        /\ session' = next.session
        /\ dao' = next.dao
        /\ UNCHANGED daoFrame

Raw ==
    \E outside_uow \in BOOLEAN :
        LET next == sa_raw(outside_uow) IN
        /\ table' = next.table
        /\ session' = next.session
        /\ dao' = next.dao
        /\ UNCHANGED daoFrame

\* A Unit-of-Work starts: its session sees the committed records.
UowStart ==
    /\ ~session.active
    /\ session' = [active |-> TRUE, closed |-> FALSE, rows |-> table]
    /\ UNCHANGED <<table, dao, daoFrame>>

\* The Unit-of-Work commits: what its session holds becomes the stored records.
UowCommit ==
    /\ session.active
    /\ table' = session.rows
    /\ session' = NoSession
    /\ UNCHANGED <<dao, daoFrame>>

\* The Unit-of-Work rolls back: what its session holds is dropped.
UowRollback ==
    /\ session.active
    /\ session' = NoSession
    /\ UNCHANGED <<table, dao, daoFrame>>

Operated == dao.op # "none"

InUow == Operated /\ dao.in_uow /\ ~dao.outside

\* C39: with no Unit-of-Work in progress an operation that returns has
\* committed and closed its own session; inside a Unit-of-Work (and not
\* marked outside it) an operation neither commits nor closes the
\* Unit-of-Work's session and leaves the stored records alone: they change
\* only when the Unit-of-Work commits, to what its session holds, and not at
\* all when it rolls back.
C39_SessionDiscipline ==
    /\ [](Operated /\ ~dao.in_uow /\ dao.raised = "none"
              => dao.committed /\ dao.closed)
    /\ [](InUow => ~dao.committed /\ ~dao.closed)
    /\ [](~session.closed)
    /\ [][session.active /\ session'.active => table' = table]_vars
    /\ [][session.active /\ ~session'.active
              => table' = table \/ table' = session.rows]_vars

\* C40: _update and _delete of an identifier with no record raise
\* ObjectNotFoundError and change no stored record; inside a Unit-of-Work
\* the step leaves the Unit-of-Work's session as it was: open, holding the
\* same pending writes.
C40_MissingRecordLeavesTheUnitOfWork ==
    [][/\ dao'.op \in {"_update", "_delete"}
       /\ dao'.raised = "ObjectNotFoundError"
       /\ dao'.in_uow /\ ~dao'.outside
       /\ session.active /\ session'.active
       => table' = table /\ session' = session]_vars

NextDao ==
    \/ Filter
    \/ Create
    \/ Update
    \/ UpdateAll
    \/ Delete
    \/ DeleteAll
    \/ Raw
    \/ UowStart
    \/ UowCommit
    \/ UowRollback

SpecDao == Init /\ [][NextDao]_vars

\* ------------------------------ eventing.py: the queries by event type
\* The names of the event classes stored and asked for; no event of the
\* last one is stored.
StoredNames == {"Registered", "Activated"}

QueryNames == StoredNames \cup {"Deleted"}

\* An event class, of which the queries by class read __name__.
EventClasses == {[name |-> name] : name \in QueryNames}

\* The creation times of the stored events.
CreatedAts == 1..MaxCreated

\* The page sizes the query set hands to _filter.
Limits == 1..MaxLimit

\* A record of the event log with its name.
NamedRecord(id, name, time) ==
    [message_id |-> id, name |-> name, created_at |-> time,
     status |-> "NEW", updated_at |-> clock]

\* filter(name=...): the rows (positions in the store) of that name.
filter_name(s, name) == {i \in Indices(s) : s[i].name = name}

order_by_created_at(s, rows) ==
    {order \in Orders(rows) :
        \A k, l \in 1..Len(order) :
            k < l => s[order[k]].created_at <= s[order[l]].created_at}

\* order_by("-created_at"): the orders the backend may return the rows in,
\* latest first; the query names no second sort key.
order_by_created_at_desc(s, rows) ==
    {order \in Orders(rows) :
        \A k, l \in 1..Len(order) :
            k < l => s[order[k]].created_at >= s[order[l]].created_at}

Min(a, b) == IF a < b THEN a ELSE b

\* SADAO._filter: the filtered rows in the order asked for, cut to the page
\* from offset of at most limit rows.
filter_(s, name, offset, limit) ==
    {SubSeq(order, offset + 1, Min(offset + limit, Len(order))) :
        order \in order_by_created_at_desc(s, filter_name(s, name))}

\* .all().first: the first row of the page, None when it is empty.
first_of(items) == IF items = <<>> THEN None ELSE items[1]

get_most_recent_event_by_type(s, event_name, limit) ==
    {first_of(items) : items \in filter_(s, event_name, 0, limit)}

get_most_recent_event_by_type_cls(s, event_cls, limit) ==
    {first_of(items) : items \in filter_(s, event_cls.name, 0, limit)}

get_all_events_of_type(s, event_name, limit) ==
    filter_(s, event_name, 0, limit)

get_all_events_of_type_cls(s, event_cls, limit) ==
    filter_(s, event_cls.name, 0, limit)

\* An event is stored in the event log; the value the last query returned
\* is of the store before and is no longer held.
AppendEvent ==
    /\ Len(store) < MaxRecords
    /\ \E name \in StoredNames, time \in CreatedAts :
         store' = Append(store, NamedRecord(Len(store) + 1, name, time))
    /\ result' = NoResult
    /\ UNCHANGED <<clock, apiVars, pubVars, log, loaded, sent, built,
                   replayVars, typeVars, daoVars>>

GetMostRecentEventByType ==
    \E event_name \in QueryNames, limit \in Limits :
        /\ \E value \in get_most_recent_event_by_type(store, event_name, limit) :
             result' = [op |-> "get_most_recent_event_by_type",
                        name |-> event_name, limit |-> limit, value |-> value]
        /\ UNCHANGED <<storeVars, apiVars, pubVars, log, loaded, sent, built,
                       replayVars, typeVars, daoVars>>

GetMostRecentEventByTypeCls ==
    \E event_cls \in EventClasses, limit \in Limits :
        /\ \E value \in get_most_recent_event_by_type_cls(store, event_cls, limit) :
             result' = [op |-> "get_most_recent_event_by_type_cls",
                        name |-> event_cls.name, limit |-> limit, value |-> value]
        /\ UNCHANGED <<storeVars, apiVars, pubVars, log, loaded, sent, built,
                       replayVars, typeVars, daoVars>>

GetAllEventsOfType ==
    \E event_name \in QueryNames, limit \in Limits :
        /\ \E value \in get_all_events_of_type(store, event_name, limit) :
             result' = [op |-> "get_all_events_of_type",
                        name |-> event_name, limit |-> limit, value |-> value]
        /\ UNCHANGED <<storeVars, apiVars, pubVars, log, loaded, sent, built,
                       replayVars, typeVars, daoVars>>

GetAllEventsOfTypeCls ==
    \E event_cls \in EventClasses, limit \in Limits :
        /\ \E value \in get_all_events_of_type_cls(store, event_cls, limit) :
             result' = [op |-> "get_all_events_of_type_cls",
                        name |-> event_cls.name, limit |-> limit, value |-> value]
        /\ UNCHANGED <<storeVars, apiVars, pubVars, log, loaded, sent, built,
                       replayVars, typeVars, daoVars>>

MostRecentOps ==
    {"get_most_recent_event_by_type", "get_most_recent_event_by_type_cls"}

NextQuery ==
    \/ AppendEvent
    \/ GetMostRecentEventByType
    \/ GetMostRecentEventByTypeCls
    \/ GetAllEventsOfType
    \/ GetAllEventsOfTypeCls

SpecQuery == Init /\ [][NextQuery]_vars

\* ----------------------------------- definition of classes, registration
HandlerNames == DOMAIN Handlers

\* The type of the events applied: both classes have a projection of it.
AppliedTypes == {fully_qualified_name("Registered")}

\* class cls(BaseEventSourcedAggregate), declaring the fields fs.
DefineClass ==
    \E cls \in ClassNames \ DOMAIN projOf, fs \in FieldLists, abstract \in BOOLEAN :
        LET made == init_subclass(heap, fs, abstract) IN
        /\ defined' = [cls |-> cls, fields |-> fs, abstract |-> abstract,
                       raised |-> made.raised, id_field |-> made.id_field]
        /\ heap' = made.heap
        /\ projOf' = IF made.raised = "none" THEN projOf @@ (cls :> made.ref)
                     ELSE projOf
        /\ UNCHANGED <<storeVars, apiVars, pubVars, log, loaded, sent, built,
                       replayVars, cmp, called, metas, handlersDone, queryVars>>

\* class handler(BaseEventHandler).
DefineHandler ==
    \E handler \in HandlerNames \ DOMAIN projOf :
        LET made == handler_init_subclass(heap) IN
        /\ heap' = made.heap
        /\ projOf' = projOf @@ (handler :> made.ref)
        /\ UNCHANGED <<storeVars, apiVars, pubVars, log, loaded, sent, built,
                       replayVars, cmp, defined, called, metas, handlersDone,
                       queryVars>>

\* The registration of an aggregate class: its methods marked by @apply are
\* added to its _projections.
Factory ==
    \E cls \in ClassNames \cap DOMAIN projOf :
        /\ heap' = [heap EXCEPT ![projOf[cls]] = add_methods(@, MethodsOf[cls])]
        /\ UNCHANGED <<storeVars, apiVars, pubVars, log, loaded, sent, built,
                       replayVars, cmp, projOf, defined, called, metas,
                       handlersDone, queryVars>>

\* The registration of a handler class against its aggregate class.
RegisterHandler ==
    \E handler \in (HandlerNames \cap DOMAIN projOf) \ handlersDone :
        /\ Handlers[handler].aggregate_cls \in DOMAIN projOf
        /\ heap' = [heap EXCEPT ![projOf[handler]] =
                        add_handlers(@, Handlers[handler].methods)]
        /\ metas' = register_handler(metas, handler)
        /\ handlersDone' = handlersDone \cup {handler}
        /\ UNCHANGED <<storeVars, apiVars, pubVars, log, loaded, sent, built,
                       replayVars, cmp, projOf, defined, called, queryVars>>

\* _apply of an object of cls on an event of a type: the projections the
\* class's _projections holds for the type are called.
ApplyOn ==
    \E cls \in ClassNames \cap DOMAIN projOf, type \in AppliedTypes :
        LET found == lookup(heap[projOf[cls]], type) IN
        /\ heap' = [heap EXCEPT ![projOf[cls]] = found.registry]
        /\ called' = [cls |-> cls, type |-> type, calls |-> found.value]
        /\ UNCHANGED <<storeVars, apiVars, pubVars, log, loaded, sent, built,
                       replayVars, cmp, projOf, defined, metas, handlersDone,
                       queryVars>>

NamesOf(cls) ==
    IF cls \in ClassNames THEN {method.name : method \in MethodsOf[cls]}
    ELSE {method.name : method \in Handlers[cls].methods}

\* C24: the registry of a class holds methods of that class only, no two
\* classes share a registry, and applying an event on an object of a class
\* calls projections of that class only.
C24_RegistriesAreIndependent ==
    /\ \A cls \in DOMAIN projOf : \A type \in DOMAIN heap[projOf[cls]] :
           heap[projOf[cls]][type] \subseteq NamesOf(cls)
    /\ \A a, b \in DOMAIN projOf : a # b => projOf[a] # projOf[b]
    /\ called # NoCalled => called.calls \subseteq NamesOf(called.cls)

\* Both aggregate classes hold their projections of Registered, and an
\* event of that type applied on an Email called Email's projection.
C24_Witness ==
    /\ {"User", "Email"} \subseteq DOMAIN projOf
    /\ fully_qualified_name("Registered") \in DOMAIN heap[projOf["User"]]
    /\ heap[projOf["User"]][fully_qualified_name("Registered")] = {"registered", "welcomed"}
    /\ called # NoCalled
    /\ called.cls = "Email"
    /\ called.calls = {"email_registered"}

\* C25: the definition of a class that is not abstract and declares no
\* identifier field raises the error of a missing identifier, whatever other
\* fields it declares; a class that declares an identifier field is accepted
\* and the field is recorded as its identifier.
C25_MissingIdentifierRaises ==
    defined # NoDefinition /\ ~defined.abstract =>
        IF \E i \in Indices(defined.fields) : defined.fields[i].identifier
        THEN /\ defined.raised = "none"
             /\ \E i \in Indices(defined.fields) :
                    /\ defined.fields[i].identifier
                    /\ defined.id_field = defined.fields[i].name
        ELSE defined.raised = "IncorrectUsageError"

\* C26: once a handler is registered against an aggregate class, an event it
\* handles that declares no stream_name has the stream name of that class,
\* an event that declares one keeps it, the aggregate_cls of every handled
\* event is the one it declares, and a message of the event is written to
\* that stream.
C26_HandledEventsGetTheStream ==
    \A handler \in handlersDone : \A event \in handles(handler) :
        LET stream_name ==
                IF DeclaredMetas[event].stream_name = NoName
                THEN aggregate_meta[Handlers[handler].aggregate_cls].stream_name
                ELSE DeclaredMetas[event].stream_name IN
        /\ metas[event].stream_name = stream_name
        /\ metas[event].aggregate_cls = DeclaredMetas[event].aggregate_cls
        /\ event_stream_root(metas[event]) = stream_name

\* Both handlers are registered: the events without options are in the
\* streams of User and of Email, the events with options kept them.
C26_Witness ==
    /\ handlersDone = HandlerNames
    /\ metas["Registered"] = [aggregate_cls |-> NoClass, stream_name |-> "user"]
    /\ metas["Activated"] = [aggregate_cls |-> NoClass, stream_name |-> "user"]
    /\ metas["Subscribed"] = [aggregate_cls |-> NoClass, stream_name |-> "subscriptions"]
    /\ metas["Sent"] = [aggregate_cls |-> NoClass, stream_name |-> "email"]
    /\ metas["Recalled"] = [aggregate_cls |-> "Email", stream_name |-> "recalls"]

NextTypes == DefineClass \/ DefineHandler \/ Factory \/ RegisterHandler \/ ApplyOn

SpecTypes == Init /\ [][NextTypes]_vars

\* ------------------------------------------- comparison of aggregates
\* An aggregate is compared with an object, of its class or of another one.
Compare ==
    \E self \in Objects(ClassNames), other \in Objects(ClassNames \cup {"Account"}) :
        /\ cmp' = [self |-> self, other |-> other, eq |-> eq_(self, other),
                   hashes |-> <<hash_(self), hash_(other)>>]
        /\ UNCHANGED <<storeVars, apiVars, pubVars, log, loaded, sent, built,
                       replayVars, heap, projOf, defined, called, metas,
                       handlersDone, queryVars>>

\* C22: an aggregate equals another object exactly when the two are of the
\* same class and have the same identifier, whatever their other fields hold.
C22_EqualityIsTypeAndIdentifier ==
    cmp # NoCmp =>
        (cmp.eq <=> (cmp.self.cls = cmp.other.cls /\ cmp.self.id = cmp.other.id))

\* Two aggregates of one class and one identifier with different names
\* compared equal.
C22_Witness ==
    /\ cmp # NoCmp
    /\ cmp.self.cls = "User"
    /\ cmp.other.cls = "User"
    /\ cmp.self.id = PyStr("1")
    /\ cmp.other.id = PyStr("1")
    /\ cmp.self.name # cmp.other.name
    /\ cmp.eq

\* C32: two objects that are equal have equal hashes, and two aggregates
\* with the same identifier have the same hash whatever their other fields
\* hold.
C32_HashIsConsistentWithEquality ==
    cmp # NoCmp =>
        /\ cmp.eq => cmp.hashes[1] = cmp.hashes[2]
        /\ cmp.self.id = cmp.other.id => cmp.hashes[1] = cmp.hashes[2]
        /\ cmp.hashes[1] = py_hash(cmp.self.id)

\* An aggregate and the same aggregate with another name: equal, and of the
\* same hash.
C32_Witness ==
    /\ cmp # NoCmp
    /\ cmp.self.cls = "Email"
    /\ cmp.other.cls = "Email"
    /\ cmp.self.id = PyStr("2")
    /\ cmp.other.id = PyStr("2")
    /\ cmp.self.name = PyStr("a")
    /\ cmp.other.name = PyStr("b")
    /\ cmp.eq
    /\ cmp.hashes = <<2, 2>>

NextEq == Compare

SpecEq == Init /\ [][NextEq]_vars

\* ------------------------------------------------- claims on the store API
\* A step of SpecApi that is a call of op.
IsCall(op) == last'.op = op

InOrder(op, status) ==
    \/ op = "mark_published" /\ status = "NEW"
    \/ op = "mark_consumed" /\ status = "PUBLISHED"

\* C1: whatever mark_published and mark_consumed calls are made on a stored
\* record, its status never moves backwards along NEW, PUBLISHED, CONSUMED.
C1_StatusNeverRegresses ==
    [][\A i \in Indices(store) :
         Rank(store'[i].status) >= Rank(store[i].status)]_vars

\* C2: mark_published and mark_consumed advance the status by exactly one
\* step; a call out of order raises StateTransitionError and leaves the
\* status as it was.
C2_OneStepOrRejected ==
    [][\A op \in {"mark_published", "mark_consumed"} :
         IsCall(op) =>
            LET i == last'.arg IN
            IF InOrder(op, last'.before)
            THEN /\ last'.raised = "none"
                 /\ Rank(store'[i].status) = Rank(last'.before) + 1
            ELSE /\ last'.raised = "StateTransitionError"
                 /\ store'[i].status = last'.before]_vars

TwicePublished == last.op = "mark_published" /\ last.again

\* C3: after a second mark_published on the same record its status is
\* PUBLISHED, as it was after the first call: neither CONSUMED nor NEW.
C3_MarkPublishedTwice ==
    TwicePublished =>
        /\ store[last.arg].status = "PUBLISHED"
        /\ last.status = "PUBLISHED"
        /\ last.before = last.status

C3_Witness == TwicePublished /\ Len(store) >= 2

\* The oldest NEW record, ties on created_at broken by insertion order.
OldestNewFirstInserted(s) ==
    IF NewIndices(s) = {} THEN None
    ELSE CHOOSE i \in NewIndices(s) :
            \A j \in NewIndices(s) :
                \/ s[i].created_at < s[j].created_at
                \/ s[i].created_at = s[j].created_at /\ i <= j

\* C5: get_next_to_publish returns the NEW record created earliest, the one
\* inserted first among those of equal created_at, and none when no record
\* is NEW.
C5_OldestNewTiesByInsertion ==
    last.op = "get_next_to_publish" => last.arg = OldestNewFirstInserted(store)

\* C7: an append of a message whose id is not stored adds exactly one record,
\* at the end, with status NEW whatever the message carries, and changes no
\* record already stored.
C7_AppendInsertsOneNew ==
    [][(IsCall("append") /\ ~HasId(store, last'.arg)) =>
          /\ last'.raised = "none"
          /\ Len(store') = Len(store) + 1
          /\ store'[Len(store')].message_id = last'.arg
          /\ store'[Len(store')].status = "NEW"
          /\ SubSeq(store', 1, Len(store)) = store]_vars

C7_Witness ==
    /\ last.op = "append"
    /\ last.raised = "none"
    /\ last.status = "CONSUMED"
    /\ Len(store) = 3
    /\ store[1].status = "PUBLISHED"
    /\ store[3].message_id = last.arg

C4_SingleWinner ==
    \A i \in Indices(store) : Cardinality(publishedBy[i]) <= 1

\* C6: with one publisher, records are published in the order they were
\* appended: no record is marked PUBLISHED while a record appended before it
\* is still NEW.
C6_PublishedInAppendOrder ==
    [][\A i \in Indices(store) :
         (store[i].status = "NEW" /\ store'[i].status = "PUBLISHED") =>
            \A j \in 1..(i - 1) : store[j].status # "NEW"]_vars

StrictlyIncreasing(s) ==
    \A i, j \in Indices(s) : i < j => s[i].created_at < s[j].created_at

\* C6, as amended: with one publisher, records are published in the order of
\* created_at: the record get_next_to_publish returns is NEW and no NEW
\* record has an earlier created_at (the first NEW record appended when
\* created_at grows strictly with the append order), and no record is marked
\* PUBLISHED while a record appended before it with a strictly earlier
\* created_at is still NEW.
C6_PublishedInCreationOrder ==
    [][/\ (pc["p1"] = "idle" /\ pc'["p1"] = "picked") =>
            LET i == cur'["p1"] IN
            /\ i \in NewIndices(store)
            /\ \A j \in NewIndices(store) :
                  store[i].created_at <= store[j].created_at
            /\ StrictlyIncreasing(store) =>
                  \A j \in NewIndices(store) : i <= j
       /\ \A i \in Indices(store) :
            (store[i].status = "NEW" /\ store'[i].status = "PUBLISHED") =>
               \A j \in 1..(i - 1) :
                  store[j].status = "NEW" =>
                     store[i].created_at <= store[j].created_at]_vars

C6_Witness ==
    /\ Len(store) = 3
    /\ StrictlyIncreasing(store)
    /\ store[1].status = "PUBLISHED"
    /\ publishedBy[1] = {"p1"}
    /\ pc["p1"] = "picked"
    /\ cur["p1"] = 2
    /\ store[3].status = "NEW"

\* C10: when a handler raises, its Unit-of-Work is rolled back and its writes
\* never reach the database (writes persist only through the commit of a
\* handler that returned), the exception reaches the publisher, which marks
\* nothing, and the record keeps its status: a record leaves NEW only through
\* a dispatch that succeeded, and a record still NEW is returned again by
\* get_next_to_publish.
C10_HandlerFailureRollsBack ==
    /\ [](\A i \in Indices(store) :
            store[i].status # "NEW" => publishedBy[i] # {})
    /\ [][\A p \in Publishers :
            /\ (pc[p] = "handling" /\ pc'[p] = "failed") =>
                  /\ uow'[p] = NoUow
                  /\ discarded'[p] = uow[p].pending
                  /\ db' = db
                  /\ store' = store
                  /\ cur'[p] = cur[p]
                  /\ store[cur[p]].status = "NEW" =>
                        cur[p] \in get_next_to_publish(store')
            /\ (pc[p] = "failed" /\ pc'[p] # "failed") =>
                  /\ pc'[p] = "idle"
                  /\ store' = store]_vars
    /\ [][db' # db =>
            \E p \in Publishers :
                /\ pc[p] = "handling"
                /\ pc'[p] = "handled"
                /\ db' = db \cup uow[p].pending]_vars

C10_Witness ==
    /\ pc["p1"] = "failed"
    /\ discarded["p1"] = {<<"p1", 1>>}
    /\ <<"p1", 1>> \notin db
    /\ store[cur["p1"]].status = "NEW"
    /\ <<"p2", 1>> \in db

WritesOf(p) == {<<p, w>> : w \in Writes}

\* C28: the failure of a handler in one context leaves the Unit-of-Work, the
\* position and the committed writes of every other context as they were,
\* and a handler of another context that returns while that context has
\* failed commits every write it made.
C28_FailureIsLocal ==
    /\ [][\A p \in Publishers :
            (pc[p] = "handling" /\ pc'[p] = "failed") =>
                \A q \in Publishers \ {p} :
                    /\ uow'[q] = uow[q]
                    /\ pc'[q] = pc[q]
                    /\ scopes'[q] = scopes[q]
                    /\ db' \cap WritesOf(q) = db \cap WritesOf(q)]_vars
    /\ [][\A q \in Publishers :
            (/\ pc[q] = "handling"
             /\ pc'[q] = "handled"
             /\ \E p \in Publishers \ {q} : pc[p] = "failed") =>
                /\ uow[q].pending \subseteq db'
                /\ db \subseteq db']_vars

\* The handler of p1 failed and its two writes were dropped, while the
\* Unit-of-Work of p2 is open and holds p2's two writes.
C28_Witness ==
    /\ pc["p1"] = "failed"
    /\ discarded["p1"] = {<<"p1", 1>>, <<"p1", 2>>}
    /\ pc["p2"] = "handling"
    /\ uow["p2"].active
    /\ uow["p2"].pending = {<<"p2", 1>>, <<"p2", 2>>}

C33_PublishedOnlyAfterCommit ==
    /\ \A i \in Indices(store) :
          store[i].status # "NEW" => publishedBy[i] # {}
    /\ \A p \in Publishers :
          pc[p] = "handling" /\ uow[p].active => store[cur[p]].status = "NEW"

\* C34: no step removes a record from the store or changes the message_id
\* of one: the stored message_ids never shrink.
C34_StoreIsAppendOnly ==
    [][/\ Len(store') >= Len(store)
       /\ \A i \in Indices(store) : store'[i].message_id = store[i].message_id]_vars

\* Three records are stored; the first was published and consumed after a
\* dispatch, and a dispatch of the second has just failed.
C34_Witness ==
    /\ Len(store) = 3
    /\ store[1].status = "CONSUMED"
    /\ store[2].status = "NEW"
    /\ pc["p1"] = "failed"
    /\ cur["p1"] = 2
    /\ {store[i].message_id : i \in Indices(store)} = {1, 2, 3}

\* C12: a context never has more than one Unit-of-Work open, also when a
\* handler is called from inside another handler's Unit-of-Work.
C12_OneUowPerContext ==
    \A p \in Publishers : scopes[p] <= 1

\* ------------------------------------- eventing.py: every field of EventLog
\* The messages of two event classes, with the keys from_message reads.
FullMessages(ids) ==
    [message_id : ids, name : StoredNames, type : {"EVENT"}, owner : {"tests"},
     payload : {{<<"id", "1">>}}, version : {1}, created_at : {1}]

\* EventLog.from_message with every field of the record: the seven keys it
\* copies, status and updated_at by their defaults.
from_message_every_field(message) ==
    [message_id |-> message.message_id,
     name       |-> message.name,
     type       |-> message.type,
     owner      |-> message.owner,
     payload    |-> message.payload,
     version    |-> message.version,
     created_at |-> message.created_at,
     status     |-> "NEW",
     updated_at |-> clock]

\* datetime.utcnow() moves on.
Tick ==
    /\ clock < MaxTime
    /\ clock' = clock + 1
    /\ UNCHANGED <<store, apiVars, pubVars, msgVars>>

\* The fields the marks do not assign.
Kept(rec) ==
    [message_id |-> rec.message_id, name |-> rec.name, type |-> rec.type,
     owner |-> rec.owner, payload |-> rec.payload, version |-> rec.version,
     created_at |-> rec.created_at]

\* C35: mark_published and mark_consumed assign status and updated_at of
\* the record they are called on; its other fields, and every other record,
\* stay as they were.
C35_MarksChangeStatusAndUpdatedAtOnly ==
    [][clock' = clock /\ last'.op \in {"mark_published", "mark_consumed"} =>
          /\ Len(store') = Len(store)
          /\ \A i \in Indices(store) :
                IF i = last'.arg
                THEN /\ Kept(store'[i]) = Kept(store[i])
                     /\ store'[i].updated_at = clock
                     /\ DOMAIN store'[i] = DOMAIN store[i]
                ELSE store'[i] = store[i]]_vars

\* The second of two records was marked published and then consumed at a
\* later time; it has the fields it was stored with, the first is as stored.
C35_Witness ==
    /\ Len(store) = 2
    /\ last.op = "mark_consumed"
    /\ last.arg = 2
    /\ store[2].status = "CONSUMED"
    /\ store[2].updated_at = 2
    /\ Kept(store[2]) = Kept(from_message_every_field(
          [message_id |-> 2, name |-> "Activated", type |-> "EVENT",
           owner |-> "tests", payload |-> {<<"id", "1">>}, version |-> 1,
           created_at |-> 1]))
    /\ store[1].status = "NEW"
    /\ store[1].updated_at = 0

\* Two stored records, of any of the event classes.
InitFrame ==
    /\ clock = 0
    /\ store \in {<<from_message_every_field(first_), from_message_every_field(second)>> :
                    first_ \in FullMessages({1}), second \in FullMessages({2})}
    /\ last = NoCall
    /\ InitPub
    /\ publishedBy = <<{}, {}>>
    /\ log = <<>>
    /\ loaded = <<>>
    /\ sent = <<>>
    /\ built = NoBuild
    /\ TypesIdle
    /\ ReplayIdle

NextFrame == MarkPublished \/ MarkConsumed \/ Tick

SpecFrame == InitFrame /\ [][NextFrame]_vars

NextApi ==
    \/ AppendMessage
    \/ MarkPublished
    \/ MarkConsumed
    \/ GetNextToPublish

SpecApi == Init /\ [][NextApi]_vars

\* One publisher, producers and a consumer.
NextSingle ==
    \/ Produce
    \/ Poll("p1")
    \/ HandlerEnter("p1")
    \/ HandlerReturn("p1")
    \/ HandlerRaise("p1")
    \/ Retry("p1")
    \/ PublisherMark("p1")
    \/ Consume

SpecSingle == Init /\ [][NextSingle]_vars

\* One publisher and one consumer that are scheduled fairly: a step of the
\* loop that stays possible is taken, and a handler that can return on
\* every retry does return on one of them.
Fairness ==
    /\ WF_vars(Poll("p1"))
    /\ WF_vars(HandlerEnter("p1"))
    /\ SF_vars(HandlerReturn("p1"))
    /\ WF_vars(Retry("p1"))
    /\ WF_vars(PublisherMark("p1"))
    /\ WF_vars(Consume)

SpecLive == Init /\ [][NextSingle]_vars /\ Fairness

HasStatus(i, status) == i \in Indices(store) /\ store[i].status = status

\* C27: under fair scheduling, every record appended to the store (as NEW)
\* is eventually PUBLISHED, and every PUBLISHED record is eventually CONSUMED.
C27_EventuallyPublishedThenConsumed ==
    \A i \in 1..MaxRecords :
        /\ HasStatus(i, "NEW") ~> HasStatus(i, "PUBLISHED")
        /\ HasStatus(i, "PUBLISHED") ~> HasStatus(i, "CONSUMED")

\* Every record of a store of two or more was published by the publisher
\* and consumed.
C27_Witness ==
    /\ Len(store) >= 2
    /\ \A i \in Indices(store) : store[i].status = "CONSUMED" /\ publishedBy[i] = {"p1"}

\* Two publishers and a consumer on a store that holds two NEW records.
InitRace ==
    /\ store = [i \in 1..2 |->
                [message_id |-> i, created_at |-> i, status |-> "NEW",
                 updated_at |-> 0]]
    /\ clock = 0
    /\ last = NoCall
    /\ InitPub
    /\ publishedBy = <<{}, {}>>
    /\ log = <<>>
    /\ loaded = <<>>
    /\ sent = <<>>
    /\ built = NoBuild
    /\ TypesIdle
    /\ ReplayIdle

Next ==
    \/ \E p \in Publishers :
          \/ Poll(p)
          \/ HandlerEnter(p)
          \/ HandlerWrite(p)
          \/ HandlerReturn(p)
          \/ HandlerRaise(p)
          \/ Retry(p)
          \/ PublisherMark(p)
    \/ Consume

Spec == InitRace /\ [][Next]_vars

\* Two publishers whose handlers call other handlers and write nothing.
NextNested ==
    \/ \E p \in Publishers :
          \/ Poll(p)
          \/ HandlerEnter(p)
          \/ HandlerCall(p)
          \/ HandlerCallReturn(p)
          \/ HandlerReturn(p)
          \/ HandlerRaise(p)
          \/ Retry(p)
          \/ PublisherMark(p)
    \/ Consume

SpecNested == InitRace /\ [][NextNested]_vars

====
